---- MODULE Spec2Model ----
(***************************************************************************)
(* Table metadata of pyiceberg (pyiceberg/table/metadata.py): the          *)
(* dispatcher TableMetadata.parse_obj, the two pydantic models             *)
(* TableMetadataV1 / TableMetadataV2 with their root validators, the three *)
(* cross-reference checks, and the upgrade TableMetadataV1.to_v2.          *)
(*                                                                         *)
(* Encoding of Python values                                               *)
(*   dict            a function whose DOMAIN is the set of keys present    *)
(*   list            a sequence                                            *)
(*   a value of the  one of three, for every key of the mapping handed to  *)
(*   input mapping   parse_obj or to a model (format-version, scalars,     *)
(*                   lists and dicts alike):                               *)
(*                     PyNone        None                                  *)
(*                     <<v>>         v, an int, str, list or dict as the   *)
(*                                   field is declared (a UUID or its text *)
(*                                   for a UUID field)                     *)
(*                     Rejected(r)   the str r, where the field is not     *)
(*                                   declared str and r does not convert   *)
(*   validated field the value itself; PyNone or <<v>> for table_uuid and  *)
(*                   current_snapshot_id (Optional in version 1)           *)
(*   Schema          [schema_id |-> n]      (only the id is read here)     *)
(*   PartitionSpec   [spec_id |-> n, fields |-> list]                      *)
(*   SortOrder       [order_id |-> n]                                      *)
(*   SnapshotRef     [snapshot_id |-> n, snapshot_ref_type |-> t]          *)
(***************************************************************************)
EXTENDS Integers, Sequences, FiniteSets, TLC

VARIABLES raw, phase, doc, err, v2doc, v2err, redoc, reerr

vars == <<raw, phase, doc, err, v2doc, v2err, redoc, reerr>>

\* ------------------------------------------------------------------ bounds
MaxId == 1
MaxLen == 2

\* ------------------------------------------------------- program constants
INITIAL_SEQUENCE_NUMBER == 0
INITIAL_SPEC_ID == 0
DEFAULT_SCHEMA_ID == 0
UNSORTED_SORT_ORDER_ID == 0
UNSORTED_SORT_ORDER == [order_id |-> UNSORTED_SORT_ORDER_ID]
MAIN_BRANCH == "main"
BRANCH == "branch"
TAG == "tag"

\* ------------------------------------------------------------ Python values
PyNone == <<>>
EmptyDict == [x \in {} |-> x]

\* Text in the input where the field's declared type is not str and cannot
\* convert it, e.g. 'abc' for an int or for a list
Rejected(r) == <<"rejected", r>>

\* what a value of the input mapping is
IsNone(x) == x = PyNone
IsValue(x) == Len(x) = 1
IsText(x) == Len(x) = 2

\* `sub in text` on two str: sub occurs in text
Contains(text, sub) ==
    \E i \in 1 .. (Len(text) - Len(sub) + 1) : SubSeq(text, i, i + Len(sub) - 1) = sub

\* dict.get(key): the value, or None when the key is absent
Get(d, k) == IF k \in DOMAIN d THEN d[k] ELSE PyNone

\* d[k] = v on a dict (adds the key when absent)
SetItem(d, k, v) == [x \in (DOMAIN d) \cup {k} |-> IF x = k THEN v ELSE d[x]]

\* truth value of None / a list / a dict: only the empty one is false
Falsy(x) == x = <<>>

\* truth value of an Optional[int]: None and 0 are false
TruthyInt(o) == o # PyNone /\ o[1] # 0

\* max() that settles for the first element
MaxOf_first(s) == s[1]

RECURSIVE MaxOf(_)
MaxOf(s) == IF Len(s) = 1 THEN s[1]
            ELSE LET m == MaxOf(Tail(s)) IN IF s[1] > m THEN s[1] ELSE m

\* ---------------------------------------------------------------- outcomes
\* An outcome carries at most one exception: NoExc or <<exception>>.  `arg` is the
\* id or value the message names (PyNone or <<n>>); `errors` is the error list
\* of a pydantic ValidationError.
NoExc == <<>>
ExcRec(type, what, arg) == [type |-> type, what |-> what, arg |-> arg, errors |-> <<>>]
Exc(type, what, arg) == <<ExcRec(type, what, arg)>>
PydanticValidationError(errors) ==
    <<[type |-> "pydantic.ValidationError", what |-> "", arg |-> PyNone, errors |-> errors]>>

\* pydantic turns these, raised inside a validator, into its own error list
CaughtByPydantic(e) == e[1].type \in {"ValueError", "TypeError", "AssertionError"}

Ok(v) == [exc |-> NoExc, val |-> v]
Raise(e) == [exc |-> e, val |-> EmptyDict]

\* The argument of a check: a dict or a list.  values["key"] on a list raises
\* TypeError; on a dict without the key, KeyError.
DictArg(d) == [kind |-> "dict", v |-> d]
ListArg(l) == [kind |-> "list", v |-> l]
StrIndexTypeError == Exc("TypeError", "list indices must be integers or slices, not str", PyNone)
Subscriptable(values, keys) == values.kind = "dict" /\ keys \subseteq DOMAIN values.v
SubscriptError(values, keys) ==
    IF values.kind # "dict" THEN StrIndexTypeError
    ELSE Exc("KeyError", CHOOSE k \in keys : k \notin DOMAIN values.v, PyNone)

\* ------------------------------------------------- cross-reference checks
check_schemas(values) ==
    IF ~Subscriptable(values, {"current_schema_id"})
    THEN Raise(SubscriptError(values, {"current_schema_id"}))
    ELSE IF ~Subscriptable(values, {"schemas"})
    THEN Raise(SubscriptError(values, {"schemas"}))
    ELSE LET current_schema_id == values.v.current_schema_id
             schemas == values.v.schemas
         IN IF \E i \in DOMAIN schemas : schemas[i].schema_id = current_schema_id
            THEN Ok(values.v)
            ELSE Raise(Exc("ValidationError", "current-schema-id", <<current_schema_id>>))

check_partition_specs(values) ==
    IF ~Subscriptable(values, {"default_spec_id"})
    THEN Raise(SubscriptError(values, {"default_spec_id"}))
    ELSE IF ~Subscriptable(values, {"partition_specs"})
    THEN Raise(SubscriptError(values, {"partition_specs"}))
    ELSE LET default_spec_id == values.v.default_spec_id
             partition_specs == values.v.partition_specs
         IN IF \E i \in DOMAIN partition_specs : partition_specs[i].spec_id = default_spec_id
            THEN Ok(values.v)
            ELSE Raise(Exc("ValidationError", "default-spec-id", <<default_spec_id>>))

\* check_sort_orders that looks for the unsorted order like any other
check_sort_orders_no_sentinel(values) ==
    IF ~Subscriptable(values, {"default_sort_order_id"})
    THEN Raise(SubscriptError(values, {"default_sort_order_id"}))
    ELSE LET default_sort_order_id == values.v.default_sort_order_id
         IN IF ~Subscriptable(values, {"sort_orders"})
            THEN Raise(SubscriptError(values, {"sort_orders"}))
            ELSE LET sort_orders == values.v.sort_orders
                 IN IF \E i \in DOMAIN sort_orders :
                           sort_orders[i].order_id = default_sort_order_id
                    THEN Ok(values.v)
                    ELSE Raise(Exc("ValidationError", "default-sort-order-id",
                                   <<default_sort_order_id>>))

check_sort_orders(values) ==
    IF ~Subscriptable(values, {"default_sort_order_id"})
    THEN Raise(SubscriptError(values, {"default_sort_order_id"}))
    ELSE LET default_sort_order_id == values.v.default_sort_order_id
         IN IF default_sort_order_id # UNSORTED_SORT_ORDER_ID
            THEN IF ~Subscriptable(values, {"sort_orders"})
                 THEN Raise(SubscriptError(values, {"sort_orders"}))
                 ELSE LET sort_orders == values.v.sort_orders
                      IN IF \E i \in DOMAIN sort_orders :
                                sort_orders[i].order_id = default_sort_order_id
                         THEN Ok(values.v)
                         ELSE Raise(Exc("ValidationError", "default-sort-order-id",
                                        <<default_sort_order_id>>))
            ELSE Ok(values.v)

\* --------------------------------------------------- field declarations
\* One entry per pydantic field, in declaration order: the attribute name, the
\* alias read from the input, the declared type, whether the field is required
\* and its default.
FieldDecl(name, alias, type, required, default) ==
    [name |-> name, alias |-> alias, type |-> type, required |-> required,
     default |-> default]

TableMetadataCommonFields ==
    << FieldDecl("location", "location", "str", TRUE, PyNone),
       FieldDecl("table_uuid", "table-uuid", "Optional[UUID]", FALSE, PyNone),
       FieldDecl("last_updated_ms", "last-updated-ms", "int", TRUE, PyNone),
       FieldDecl("last_column_id", "last-column-id", "int", TRUE, PyNone),
       FieldDecl("schemas", "schemas", "List[Schema]", FALSE, <<>>),
       FieldDecl("current_schema_id", "current-schema-id", "int", FALSE, DEFAULT_SCHEMA_ID),
       FieldDecl("partition_specs", "partition-specs", "List[PartitionSpec]", FALSE, <<>>),
       FieldDecl("default_spec_id", "default-spec-id", "int", FALSE, INITIAL_SPEC_ID),
       FieldDecl("last_partition_id", "last-partition-id", "int", TRUE, PyNone),
       FieldDecl("properties", "properties", "Dict[str, str]", FALSE, EmptyDict),
       FieldDecl("current_snapshot_id", "current-snapshot-id", "Optional[int]", FALSE, PyNone),
       FieldDecl("snapshots", "snapshots", "List[Snapshot]", FALSE, <<>>),
       FieldDecl("snapshot_log", "snapshot-log", "List[Dict]", FALSE, <<>>),
       FieldDecl("metadata_log", "metadata-log", "List[Dict]", FALSE, <<>>),
       FieldDecl("sort_orders", "sort-orders", "List[SortOrder]", FALSE, <<>>),
       FieldDecl("default_sort_order_id", "default-sort-order-id", "int", FALSE,
                 UNSORTED_SORT_ORDER_ID),
       FieldDecl("refs", "refs", "Dict[str, SnapshotRef]", FALSE, EmptyDict) >>

TableMetadataV1Fields ==
    TableMetadataCommonFields \o
    << FieldDecl("format_version", "format-version", "Literal", TRUE, PyNone),
       FieldDecl("schema_", "schema", "Schema", TRUE, PyNone),
       FieldDecl("partition_spec", "partition-spec", "List[Dict]", TRUE, PyNone) >>

\* TableMetadataV2 redeclares table_uuid as a required UUID
TableMetadataV2Fields ==
    [i \in DOMAIN TableMetadataCommonFields |->
        IF TableMetadataCommonFields[i].name = "table_uuid"
        THEN FieldDecl("table_uuid", "table-uuid", "UUID", TRUE, PyNone)
        ELSE TableMetadataCommonFields[i]] \o
    << FieldDecl("format_version", "format-version", "Literal", TRUE, PyNone),
       FieldDecl("last_sequence_number", "last-sequence-number", "int", FALSE,
                 INITIAL_SEQUENCE_NUMBER) >>

\* ------------------------------------------------ structural field parse
\* The collaborators' objects are built from their wire form (kebab-case keys)
\* or, when a dict() of a model is fed back, from their attribute names.
Attr(o, alias, name) == IF alias \in DOMAIN o THEN o[alias] ELSE o[name]

ParseSchema(o) == [schema_id |-> Attr(o, "schema-id", "schema_id")]
ParsePartitionSpec(o) ==
    [spec_id |-> Attr(o, "spec-id", "spec_id"), fields |-> o.fields]
ParseSortOrder(o) == [order_id |-> Attr(o, "order-id", "order_id")]
ParseSnapshotRef(o) ==
    [snapshot_id |-> Attr(o, "snapshot-id", "snapshot_id"),
     snapshot_ref_type |-> Attr(o, "type", "snapshot_ref_type")]

\* the annotations under which a validated value keeps its wrapper
OptionalTypes == {"Optional[int]", "Optional[UUID]"}
UuidOrOptional == OptionalTypes \cup {"UUID"}

\* The validated value of a field: table_uuid and current_snapshot_id stay
\* PyNone or <<v>>, every other value is taken out of its wrapper (text is a
\* str as it stands), and the collaborators' objects are built.
ParseField(f, x) ==
    CASE f.type \in UuidOrOptional -> x
      [] f.type = "str" /\ IsText(x) -> x[2]
      [] f.name = "schemas" -> [i \in DOMAIN x[1] |-> ParseSchema(x[1][i])]
      [] f.name = "schema_" -> ParseSchema(x[1])
      [] f.name = "partition_specs" -> [i \in DOMAIN x[1] |-> ParsePartitionSpec(x[1][i])]
      [] f.name = "sort_orders" -> [i \in DOMAIN x[1] |-> ParseSortOrder(x[1][i])]
      [] f.name = "refs" -> [k \in DOMAIN x[1] |-> ParseSnapshotRef(x[1][k])]
      [] OTHER -> x[1]

\* A field lookup that knows the alias only
Supplied_by_alias(f, data) == f.alias \in DOMAIN data

\* A field is read by its alias, or by its name (models populate by field name)
Supplied(f, data) == f.alias \in DOMAIN data \/ f.name \in DOMAIN data
FieldInput(f, data) == IF f.alias \in DOMAIN data THEN data[f.alias] ELSE data[f.name]

\* the Literal[1] / Literal[2] type of format_version
LiteralOk(f, data, version) ==
    f.type = "Literal" => FieldInput(f, data) = <<version>>

\* The declared type accepts the supplied value: None only where the type is
\* Optional, text only where it is str.  The elements of a list or dict are
\* validated by their own classes and are supplied well-formed.
TypeOk(f, data) ==
    LET x == FieldInput(f, data)
    IN /\ IsNone(x) => f.type \in OptionalTypes
       /\ IsText(x) => f.type = "str"

FieldFails(f, data, version) ==
    IF Supplied(f, data)
    THEN ~TypeOk(f, data) \/ ~LiteralOk(f, data, version)
    ELSE f.required

TypeErrorOf(type) ==
    CASE type \in {"int", "Optional[int]"} -> "IntegerError"
      [] type \in {"UUID", "Optional[UUID]"} -> "UUIDError"
      [] type \in {"List[Schema]", "List[PartitionSpec]", "List[SortOrder]",
                   "List[Snapshot]", "List[Dict]"} -> "ListError"
      [] type \in {"Dict[str, str]", "Dict[str, SnapshotRef]", "Schema"} -> "DictError"

FieldError(f, data) ==
    IF ~Supplied(f, data) THEN ExcRec("MissingError", f.alias, PyNone)
    ELSE IF IsNone(FieldInput(f, data)) THEN ExcRec("NoneIsNotAllowedError", f.alias, PyNone)
    ELSE IF f.type = "Literal" THEN ExcRec("WrongConstantError", f.alias, PyNone)
    ELSE ExcRec(TypeErrorOf(f.type), f.alias, PyNone)

\* The field loop of pydantic's validate_model: the values of the fields that
\* validate, and one error per field that does not.
ParseFields(fields, data, version) ==
    LET good == {i \in DOMAIN fields : ~FieldFails(fields[i], data, version)}
        decl(n) == fields[CHOOSE i \in good : fields[i].name = n]
        bad == SelectSeq(fields, LAMBDA f : FieldFails(f, data, version))
    IN [values |-> [n \in {fields[i].name : i \in good} |->
                       IF Supplied(decl(n), data)
                       THEN ParseField(decl(n), FieldInput(decl(n), data))
                       ELSE decl(n).default],
        errors |-> [i \in DOMAIN bad |-> FieldError(bad[i], data)]]

\* ------------------------------------------------------- root validators
\* cleanup_snapshot_id that leaves the sentinel in place
cleanup_snapshot_id_kept(data) == data

\* pre=True, both versions: -1 is rewritten to None in the constructor's own
\* keyword dict
cleanup_snapshot_id(data) ==
    IF Get(data, "current-snapshot-id") = <<-1>>
    THEN SetItem(data, "current-snapshot-id", PyNone)
    ELSE data

SnapshotRef(snapshot_id, snapshot_ref_type) ==
    [snapshot_id |-> snapshot_id, snapshot_ref_type |-> snapshot_ref_type]

\* post, both versions
construct_refs(data) ==
    LET current_snapshot_id == Get(data, "current_snapshot_id")
    IN IF TruthyInt(current_snapshot_id)
       THEN Ok(SetItem(data, "refs",
                       MAIN_BRANCH :> SnapshotRef(current_snapshot_id[1], BRANCH)))
       ELSE Ok(data)

\* `if "schema-id" not in data["schema"]: data["schema"]["schema-id"] = 0`.
\* The membership test raises on None; on text it is a substring test, and
\* where it finds nothing the assignment into the str raises.
DefaultSchemaId(data) ==
    IF "schema" \notin DOMAIN data THEN Raise(Exc("KeyError", "schema", PyNone))
    ELSE LET schema == data["schema"]
         IN IF IsNone(schema)
            THEN Raise(Exc("TypeError", "argument of type 'NoneType' is not iterable", PyNone))
            ELSE IF IsText(schema)
            THEN (IF Contains(schema[2], "schema-id") THEN Ok(data)
                  ELSE Raise(Exc("TypeError",
                                 "'str' object does not support item assignment", PyNone)))
            ELSE IF "schema-id" \notin DOMAIN schema[1]
            THEN Ok([data EXCEPT !["schema"] = <<SetItem(schema[1], "schema-id",
                                                          DEFAULT_SCHEMA_ID)>>])
            ELSE Ok(data)

\* `if "last-partition-id" not in data: data["last-partition-id"] =
\* max(spec["field-id"] for spec in data["partition-spec"])`; of_nothing is
\* the outcome of max() over no field.  Iterating None raises; iterating
\* text yields its characters, which have no item "field-id"; the empty
\* text, like the empty list, yields nothing.
DefaultLastPartitionId(data, of_nothing) ==
    IF "last-partition-id" \in DOMAIN data THEN Ok(data)
    ELSE IF "partition-spec" \notin DOMAIN data
    THEN Raise(Exc("KeyError", "partition-spec", PyNone))
    ELSE LET partition_spec == data["partition-spec"]
         IN IF IsNone(partition_spec)
            THEN Raise(Exc("TypeError", "'NoneType' object is not iterable", PyNone))
            ELSE IF IsText(partition_spec) /\ partition_spec[2] # ""
            THEN Raise(Exc("TypeError", "string indices must be integers, not 'str'", PyNone))
            ELSE IF IsText(partition_spec) \/ partition_spec[1] = <<>>
            THEN (IF of_nothing.exc # NoExc THEN of_nothing
                  ELSE Ok(SetItem(data, "last-partition-id", of_nothing.val)))
            ELSE Ok(SetItem(data, "last-partition-id",
                            <<MaxOf([i \in DOMAIN partition_spec[1] |->
                                      partition_spec[1][i]["field-id"]])>>))

MaxOfNothing == Raise(Exc("ValueError", "max() arg is an empty sequence", PyNone))

\* `if "table-uuid" not in data: data["table-uuid"] = uuid4()`
DefaultTableUuid(data, uuid) ==
    IF "table-uuid" \notin DOMAIN data THEN SetItem(data, "table-uuid", <<uuid>>) ELSE data

\* set_v2_compatible_defaults deriving last-partition-id with max(..., default=0)
set_v2_compatible_defaults_max_default(data, uuid) ==
    LET r1 == DefaultSchemaId(data)
    IN IF r1.exc # NoExc THEN r1
       ELSE LET r2 == DefaultLastPartitionId(r1.val, Ok(<<0>>))
            IN IF r2.exc # NoExc THEN r2 ELSE Ok(DefaultTableUuid(r2.val, uuid))

\* set_v2_compatible_defaults that leaves an absent singular schema to the
\* field parse
set_v2_compatible_defaults_guarded(data, uuid) ==
    LET r1 == IF "schema" \in DOMAIN data THEN DefaultSchemaId(data) ELSE Ok(data)
    IN IF r1.exc # NoExc THEN r1
       ELSE LET r2 == DefaultLastPartitionId(r1.val, MaxOfNothing)
            IN IF r2.exc # NoExc THEN r2 ELSE Ok(DefaultTableUuid(r2.val, uuid))

\* pre=True, version 1; uuid is the value uuid4() returns
set_v2_compatible_defaults(data, uuid) ==
    LET r1 == DefaultSchemaId(data)
    IN IF r1.exc # NoExc THEN r1
       ELSE LET r2 == DefaultLastPartitionId(r1.val, MaxOfNothing)
            IN IF r2.exc # NoExc THEN r2 ELSE Ok(DefaultTableUuid(r2.val, uuid))

\* construct_schemas that synthesizes only when the values hold no schemas key
construct_schemas_absent_only(data) ==
    IF "schemas" \notin DOMAIN data
    THEN Ok(SetItem(data, "schemas", <<data["schema_"]>>))
    ELSE LET r == check_schemas(ListArg(data["schemas"]))
         IN IF r.exc # NoExc THEN r ELSE Ok(data)

\* post, version 1
construct_schemas(data) ==
    IF Falsy(Get(data, "schemas"))
    THEN Ok(SetItem(data, "schemas", <<data["schema_"]>>))
    ELSE LET r == check_schemas(ListArg(data["schemas"]))
         IN IF r.exc # NoExc THEN r ELSE Ok(data)

\* construct_partition_specs tagging the synthesized spec with default_spec_id
construct_partition_specs_default_id(data) ==
    IF Falsy(Get(data, "partition_specs"))
    THEN Ok(SetItem(data, "partition_specs",
                    <<[spec_id |-> data["default_spec_id"], fields |-> data["partition_spec"]]>>))
    ELSE LET r == check_partition_specs(ListArg(data["partition_specs"]))
         IN IF r.exc # NoExc THEN r ELSE Ok(data)

construct_partition_specs(data) ==
    IF Falsy(Get(data, "partition_specs"))
    THEN Ok(SetItem(data, "partition_specs",
                    <<[spec_id |-> INITIAL_SPEC_ID, fields |-> data["partition_spec"]]>>))
    ELSE LET r == check_partition_specs(ListArg(data["partition_specs"]))
         IN IF r.exc # NoExc THEN r ELSE Ok(data)

set_sort_orders(data) ==
    IF ~Falsy(Get(data, "sort_orders"))
    THEN LET r == check_sort_orders(ListArg(data["sort_orders"]))
         IN IF r.exc # NoExc THEN r ELSE Ok(data)
    ELSE Ok(SetItem(data, "sort_orders", <<UNSORTED_SORT_ORDER>>))

\* post, version 2
V2_check_schemas(values) == check_schemas(DictArg(values))
V2_check_partition_specs(values) == check_partition_specs(DictArg(values))
V2_check_sort_orders(values) == check_sort_orders(DictArg(values))

\* ------------------------------------------------- the validation pipeline
PostValidator(name, skip_on_failure) == [name |-> name, skip_on_failure |-> skip_on_failure]

\* root validators run base class first, then in declaration order
V1PostValidators ==
    << PostValidator("construct_refs", TRUE),
       PostValidator("construct_schemas", TRUE),
       PostValidator("construct_partition_specs", TRUE),
       PostValidator("set_sort_orders", TRUE) >>

V2PostValidators ==
    << PostValidator("construct_refs", TRUE),
       PostValidator("check_schemas", TRUE),
       PostValidator("check_partition_specs", FALSE),
       PostValidator("check_sort_orders", TRUE) >>

ApplyValidator(name, values) ==
    CASE name = "construct_refs" -> construct_refs(values)
      [] name = "construct_schemas" -> construct_schemas(values)
      [] name = "construct_partition_specs" -> construct_partition_specs(values)
      [] name = "set_sort_orders" -> set_sort_orders(values)
      [] name = "check_schemas" -> V2_check_schemas(values)
      [] name = "check_partition_specs" -> V2_check_partition_specs(values)
      [] name = "check_sort_orders" -> V2_check_sort_orders(values)

\* The post-root-validator loop: a validator marked skip_on_failure is skipped
\* once an error is recorded; ValueError, TypeError and AssertionError are
\* recorded, any other exception leaves the constructor at once.
RECURSIVE RunPostValidators(_, _, _)
RunPostValidators(validators, i, st) ==
    IF i > Len(validators) \/ st.raised # NoExc THEN st
    ELSE IF validators[i].skip_on_failure /\ st.errors # <<>>
    THEN RunPostValidators(validators, i + 1, st)
    ELSE LET r == ApplyValidator(validators[i].name, st.values)
         IN IF r.exc = NoExc
            THEN RunPostValidators(validators, i + 1, [st EXCEPT !.values = r.val])
            ELSE IF CaughtByPydantic(r.exc)
            THEN RunPostValidators(validators, i + 1,
                                   [st EXCEPT !.errors = Append(@, r.exc[1])])
            ELSE [st EXCEPT !.raised = r.exc]

NoDoc == <<>>
Constructed(values) == [doc |-> <<values>>, exc |-> NoExc]
Failed(exc) == [doc |-> NoDoc, exc |-> exc]

\* validate_model whose caller builds the object from the values that did
\* validate, whatever errors were collected
ValidateModel_ignoring_errors(fields, validators, data, version) ==
    LET pf == ParseFields(fields, data, version)
        st == RunPostValidators(validators, 1,
                                [values |-> pf.values, errors |-> pf.errors, raised |-> NoExc])
    IN IF st.raised # NoExc THEN Failed(st.raised)
       ELSE Constructed(st.values)

\* pydantic's validate_model and the __init__ that raises on its errors
ValidateModel(fields, validators, data, version) ==
    LET pf == ParseFields(fields, data, version)
        st == RunPostValidators(validators, 1,
                                [values |-> pf.values, errors |-> pf.errors, raised |-> NoExc])
    IN IF st.raised # NoExc THEN Failed(st.raised)
       ELSE IF st.errors # <<>> THEN Failed(PydanticValidationError(st.errors))
       ELSE Constructed(st.values)

\* a pre root validator that raises ends validation with that single error
PreFailed(exc) ==
    IF CaughtByPydantic(exc) THEN Failed(PydanticValidationError(<<exc[1]>>)) ELSE Failed(exc)

TableMetadataV1(data, uuid) ==
    LET r == set_v2_compatible_defaults(cleanup_snapshot_id(data), uuid)
    IN IF r.exc # NoExc THEN PreFailed(r.exc)
       ELSE ValidateModel(TableMetadataV1Fields, V1PostValidators, r.val, 1)

TableMetadataV2(data) ==
    ValidateModel(TableMetadataV2Fields, V2PostValidators, cleanup_snapshot_id(data), 2)

\* IcebergBaseModel.dict(): the fields by name, those holding None left out
\* (exclude_none); each is again a value of the keyword dict.
DeclaredFields == TableMetadataV1Fields \o TableMetadataV2Fields
OptionalNames ==
    {DeclaredFields[i].name : i \in {j \in DOMAIN DeclaredFields :
                                        DeclaredFields[j].type \in OptionalTypes}}
ModelDict(self) ==
    LET kept == {n \in DOMAIN self : n \in OptionalNames => self[n] # PyNone}
    IN [n \in kept |-> IF n \in OptionalNames THEN self[n] ELSE <<self[n]>>]

\* Objects and the references to them.  A heap maps each reference to an
\* object: a model with its validated fields, or a dict of keyword values.
ModelObject(fields) == [kind |-> "model", fields |-> fields]
DictObject(fields) == [kind |-> "dict", fields |-> fields]
NewObject(heap, ref, obj) == (ref :> obj) @@ heap

\* self.dict() returns a dict of its own
dict(heap, ref) ==
    [heap |-> NewObject(heap, "dict()", DictObject(ModelDict(heap[ref].fields))),
     ref |-> "dict()"]

\* copy(x) returns a new object with the items of x
copy(heap, ref) == [heap |-> NewObject(heap, "copy()", heap[ref]), ref |-> "copy()"]

\* x[key] = value writes into the object x refers to
SetItemAt(heap, ref, key, value) ==
    [heap EXCEPT ![ref].fields =
        SetItem(@, key, IF heap[ref].kind = "model" THEN value ELSE <<value>>)]

\* **x: the keyword values a call receives
Kwargs(heap, ref) ==
    IF heap[ref].kind = "model" THEN ModelDict(heap[ref].fields) ELSE heap[ref].fields

\* `metadata = self.__dict__`: the model's own storage instead of a copy
to_v2_metadata_own_dict(heap) == [heap |-> heap, ref |-> "self"]

\* `metadata = copy(self.dict())`
to_v2_metadata(heap) ==
    LET d == dict(heap, "self") IN copy(d.heap, d.ref)

\* to_v2 up to its last line: `metadata = copy(self.dict())`,
\* `metadata["format_version"] = 2`
to_v2_frame(self) ==
    LET m == to_v2_metadata("self" :> ModelObject(self))
    IN [heap |-> SetItemAt(m.heap, m.ref, "format_version", 2), metadata |-> m.ref]

\* to_v2 that starts the version-2 document without a current snapshot
to_v2_dropping_snapshot(self) ==
    LET metadata == SetItem(SetItem(ModelDict(self), "format_version", <<2>>),
                            "current_snapshot_id", PyNone)
    IN TableMetadataV2(metadata)

\* to_v2 that hands back the document it was called on
to_v2_returning_self(self) == Constructed(self)

\* TableMetadataV1.to_v2
to_v2(self) ==
    LET frame == to_v2_frame(self)
    IN TableMetadataV2(Kwargs(frame.heap, frame.metadata))

\* parse_obj without its membership test: an absent format-version reaches
\* the final else branch as None
parse_obj_no_missing_check(data, uuid) ==
    IF "format-version" \notin DOMAIN data
    THEN Failed(Exc("ValidationError", "Unknown format version", PyNone))
    ELSE LET format_version == data["format-version"]
         IN IF format_version = <<1>> THEN TableMetadataV1(data, uuid)
            ELSE IF format_version = <<2>> THEN TableMetadataV2(data)
            ELSE Failed(Exc("ValidationError", "Unknown format version", format_version))

\* parse_obj whose final branch tries the newest model instead of raising
parse_obj_else_v2(data, uuid) ==
    IF "format-version" \notin DOMAIN data
    THEN Failed(Exc("ValidationError", "Missing format-version in TableMetadata", PyNone))
    ELSE LET format_version == data["format-version"]
         IN IF format_version = <<1>> THEN TableMetadataV1(data, uuid)
            ELSE TableMetadataV2(data)

\* parse_obj that upgrades what it reads
parse_obj_upgrading(data, uuid) ==
    IF "format-version" \notin DOMAIN data
    THEN Failed(Exc("ValidationError", "Missing format-version in TableMetadata", PyNone))
    ELSE LET format_version == data["format-version"]
         IN IF format_version = <<1>>
            THEN LET r == TableMetadataV1(data, uuid)
                 IN IF r.doc = NoDoc THEN r ELSE to_v2(r.doc[1])
            ELSE IF format_version = <<2>> THEN TableMetadataV2(data)
            ELSE Failed(Exc("ValidationError", "Unknown format version", format_version))

\* TableMetadata.parse_obj
parse_obj(data, uuid) ==
    IF "format-version" \notin DOMAIN data
    THEN Failed(Exc("ValidationError", "Missing format-version in TableMetadata", PyNone))
    ELSE LET format_version == data["format-version"]
         IN IF format_version = <<1>> THEN TableMetadataV1(data, uuid)
            ELSE IF format_version = <<2>> THEN TableMetadataV2(data)
            ELSE Failed(Exc("ValidationError", "Unknown format version", format_version))

\* The object to_v2 was called on, after the call: what the heap holds for
\* self once lines 283-284 have run.
SelfAfterToV2(self) == to_v2_frame(self).heap["self"].fields

\* The version-2 pipeline run again on a version-2 document's field values,
\* TableMetadataV2(**self.dict()), and the document afterwards
RevalidateFrame(self) == dict("self" :> ModelObject(self), "self")
RevalidateV2(self) ==
    LET frame == RevalidateFrame(self)
    IN TableMetadataV2(Kwargs(frame.heap, frame.ref))
SelfAfterRevalidate(self) == RevalidateFrame(self).heap["self"].fields

\* TableMetadataCommonFields.current_schema: next() over the schemas whose
\* schema_id is current_schema_id; an exhausted generator raises StopIteration
current_schema(self) ==
    LET matching == {i \in DOMAIN self.schemas :
                        self.schemas[i].schema_id = self.current_schema_id}
    IN IF matching = {} THEN Raise(Exc("StopIteration", "", PyNone))
       ELSE Ok(self.schemas[CHOOSE i \in matching : \A j \in matching : i <= j])

\* What the caller's mapping holds after the call: the keyword dict is the
\* constructor's own, the nested schema object is shared with the caller.
CallerMapping(data) ==
    IF /\ "format-version" \in DOMAIN data
       /\ data["format-version"] = <<1>>
       /\ "schema" \in DOMAIN data
       /\ IsValue(data["schema"])
       /\ "schema-id" \notin DOMAIN data["schema"][1]
    THEN [data EXCEPT !["schema"] = <<SetItem(@[1], "schema-id", DEFAULT_SCHEMA_ID)>>]
    ELSE data

\* ---------------------------------------------------------- raw documents
Ids == 0 .. MaxId
SeqsUpTo(S, n) == UNION {[1 .. k -> S] : k \in 0 .. n}

\* a key that may be absent, with its values drawn from S
Opt(k, S) == {EmptyDict} \cup {k :> v : v \in S}
\* values of the declared type
Values(S) == {<<v>> : v \in S}
Req(k, S) == {k :> v : v \in S}
Join(A, B) == {a @@ b : a \in A, b \in B}

RawSchema(id) == ("type" :> "struct") @@ ("schema-id" :> id)
RawSchemaNoId == "type" :> "struct"
RawSchemas == {RawSchemaNoId} \cup {RawSchema(i) : i \in Ids}
RawSchemaLists == SeqsUpTo({RawSchema(i) : i \in Ids}, MaxLen)

FieldIds == {1000, 1001}
RawPartitionField(id) == ("field-id" :> id) @@ ("transform" :> "identity")
RawPartitionFieldLists == SeqsUpTo({RawPartitionField(i) : i \in FieldIds}, MaxLen)
RawPartitionSpec(id) == ("spec-id" :> id) @@ ("fields" :> <<RawPartitionField(1000)>>)
RawPartitionSpecLists == SeqsUpTo({RawPartitionSpec(i) : i \in Ids}, MaxLen)

RawSortOrder(id) == ("order-id" :> id) @@ ("fields" :> <<>>)
RawSortOrderLists == SeqsUpTo({RawSortOrder(i) : i \in Ids}, MaxLen)

SnapshotIds == {0, 42}
RawSnapshotIdValues == {PyNone, <<-1>>} \cup {<<s>> : s \in SnapshotIds}
RawRef(id, type) == ("snapshot-id" :> id) @@ ("type" :> type)
RawRefValues == {RawRef(42, TAG), RawRef(7, BRANCH), RawRef(7, TAG)}
RefNames == {MAIN_BRANCH, "dev"}
RawRefMaps == UNION {[N -> RawRefValues] : N \in SUBSET RefNames}

\* Each family of documents exhausts one group of fields against
\* representative values of the other groups.
VersionAll == Opt("format-version", Values(0 .. 3) \cup {PyNone, Rejected("1")})
VersionSupported == Req("format-version", Values({1, 2}))

StructureComplete ==
    ("location" :> <<"s3://bucket/table">>) @@ ("last-updated-ms" :> <<1602638573>>) @@
    ("last-column-id" :> <<3>>) @@ ("table-uuid" :> <<"uuid-supplied">>)
HistoryFields ==
    ("properties" :> <<"read.split.target.size" :> "134217728">>) @@
    ("snapshots" :> << <<[snapshot_id |-> 42]>> >>) @@
    ("snapshot-log" :> << <<[snapshot_id |-> 42, timestamp_ms |-> 1515100955]>> >>) @@
    ("metadata-log" :> << <<[metadata_file |-> "s3://bucket/.metadata.json",
                             timestamp_ms |-> 1515100900]>> >>)
StructureAll ==
    Join({[k \in K |-> StructureComplete[k]] : K \in SUBSET DOMAIN StructureComplete},
         {EmptyDict, HistoryFields})

SchemaGroupAll ==
    Join(Opt("schema", Values(RawSchemas)),
         Join(Opt("schemas", Values(RawSchemaLists)), Opt("current-schema-id", Values(Ids))))
SchemaGroupSingular == "schema" :> <<RawSchemaNoId>>
SchemaGroupPlural ==
    ("schema" :> <<RawSchema(0)>>) @@ ("schemas" :> << <<RawSchema(0)>> >>) @@
    ("current-schema-id" :> <<0>>)
SchemaGroupBase == {SchemaGroupSingular, SchemaGroupPlural}
\* the plural collection and its pointer alone, without the singular field
SchemaGroupPluralOnly ==
    ("schemas" :> << <<RawSchema(0)>> >>) @@ ("current-schema-id" :> <<0>>)

PartitionGroupAll ==
    Join(Opt("partition-spec", Values(RawPartitionFieldLists)),
         Join(Opt("partition-specs", Values(RawPartitionSpecLists)),
              Join(Opt("default-spec-id", Values(Ids)), Opt("last-partition-id", Values({1005})))))
PartitionGroupSingular == "partition-spec" :> << <<RawPartitionField(1000)>> >>
PartitionGroupPlural ==
    ("partition-spec" :> << <<RawPartitionField(1000)>> >>) @@
    ("partition-specs" :> << <<RawPartitionSpec(0)>> >>) @@
    ("default-spec-id" :> <<0>>) @@ ("last-partition-id" :> <<1000>>)
PartitionGroupBase == {PartitionGroupSingular, PartitionGroupPlural}
PartitionGroupPluralOnly ==
    ("partition-specs" :> << <<RawPartitionSpec(0)>> >>) @@
    ("default-spec-id" :> <<0>>) @@ ("last-partition-id" :> <<1000>>)

SortGroupAll ==
    Join(Opt("sort-orders", Values(RawSortOrderLists)),
         Opt("default-sort-order-id", Values(Ids)))
SortGroupBase == {EmptyDict}

SnapshotGroupAll ==
    Join(Opt("current-snapshot-id", RawSnapshotIdValues), Opt("refs", Values(RawRefMaps)))
SnapshotGroupBase ==
    {EmptyDict, ("current-snapshot-id" :> <<42>>) @@ ("refs" :> <<"dev" :> RawRef(7, TAG)>>)}

\* values the declared type does not accept: None for a field that is not
\* Optional, text that is no number, no UUID, no list, no dict
StructureIllTyped ==
    Join({"location" :> v : v \in {<<"s3://bucket/table">>, PyNone}},
         Join({"last-updated-ms" :> <<1602638573>>},
              Join({"last-column-id" :> v : v \in {<<3>>, Rejected("abc")}},
                   {"table-uuid" :> v :
                       v \in {<<"uuid-supplied">>, PyNone, Rejected("not-a-uuid")}})))
SchemaGroupIllTyped ==
    {("schema" :> <<RawSchema(0)>>) @@ ("schemas" :> << <<RawSchema(0)>> >>) @@
     ("current-schema-id" :> v) : v \in {PyNone, Rejected("abc")}}
PartitionGroupIllTyped ==
    Join({("partition-spec" :> << <<RawPartitionField(1000)>> >>) @@
          ("partition-specs" :> << <<RawPartitionSpec(0)>> >>)},
         Join({"default-spec-id" :> v : v \in {<<0>>, PyNone, Rejected("abc")}},
              {"last-partition-id" :> v : v \in {<<1000>>, PyNone, Rejected("abc")}}))
SortGroupIllTyped == {"default-sort-order-id" :> v : v \in {PyNone, Rejected("abc")}}

\* one list or dict of a complete document replaced by None or by text
CollectionKeys ==
    {"schema", "schemas", "partition-spec", "partition-specs", "sort-orders",
     "properties", "refs", "snapshots", "snapshot-log", "metadata-log"}
CompleteSingular ==
    StructureComplete @@ SchemaGroupSingular @@ PartitionGroupSingular
CompletePlural ==
    StructureComplete @@ SchemaGroupPlural @@ PartitionGroupPlural
\* the singular fields as text: one that holds "schema-id", the empty one
SingularsAsText ==
    Join({StructureComplete},
         Join(Req("schema", {<<RawSchemaNoId>>, Rejected("schema-id: 1")}),
              Opt("partition-spec", {<< <<RawPartitionField(1000)>> >>, Rejected(""),
                                     Rejected("abc")})))
CollectionsIllTyped ==
    {(k :> v) @@ d : k \in CollectionKeys, v \in {PyNone, Rejected("abc")},
                     d \in {CompleteSingular, CompletePlural}}
Document(V, St, Sc, P, So, Sn) == Join(V, Join(St, Join(Sc, Join(P, Join(So, Sn)))))

RawDocuments ==
    Document(VersionAll, StructureAll, SchemaGroupBase, PartitionGroupBase,
             SortGroupBase, SnapshotGroupBase)
    \cup Document(VersionSupported, {StructureComplete}, SchemaGroupAll, PartitionGroupBase,
                  SortGroupBase, SnapshotGroupBase)
    \cup Document(VersionSupported, {StructureComplete}, SchemaGroupBase, PartitionGroupAll,
                  SortGroupBase, SnapshotGroupBase)
    \cup Document(VersionSupported, {StructureComplete}, SchemaGroupBase, PartitionGroupBase,
                  SortGroupAll, SnapshotGroupBase)
    \cup Document(VersionSupported, {StructureComplete}, SchemaGroupBase, PartitionGroupBase,
                  SortGroupBase, SnapshotGroupAll)
    \cup Document(VersionSupported, {StructureComplete}, {SchemaGroupPluralOnly},
                  {PartitionGroupPluralOnly}, SortGroupBase, SnapshotGroupBase)
    \cup Document(VersionSupported, StructureIllTyped, SchemaGroupBase,
                  PartitionGroupBase, SortGroupBase, {EmptyDict})
    \cup Document(VersionSupported, {StructureComplete}, SchemaGroupIllTyped,
                  PartitionGroupBase, SortGroupBase, {EmptyDict})
    \cup Document(VersionSupported, {StructureComplete}, SchemaGroupBase,
                  PartitionGroupIllTyped, SortGroupBase, {EmptyDict})
    \cup Document(VersionSupported, {StructureComplete}, SchemaGroupBase,
                  PartitionGroupBase, SortGroupIllTyped, {EmptyDict})
    \cup Join(VersionSupported, CollectionsIllTyped)
    \cup Join(VersionSupported, SingularsAsText)

GeneratedUUIDs == {"uuid4-a", "uuid4-b"}

\* --------------------------------------------------------- state machine
\* raw: the caller's mapping; doc / err: what parse_obj returned or raised;
\* v2doc / v2err: what to_v2 on doc returned or raised; redoc / reerr: what
\* constructing TableMetadataV2 again from a version-2 document returned or raised.
Init ==
    /\ raw \in RawDocuments
    /\ phase = "input"
    /\ doc = NoDoc
    /\ err = NoExc
    /\ v2doc = NoDoc
    /\ v2err = NoExc
    /\ redoc = NoDoc
    /\ reerr = NoExc

ParseObj ==
    /\ phase = "input"
    /\ \E uuid \in GeneratedUUIDs :
          LET r == parse_obj(raw, uuid)
          IN /\ doc' = r.doc
             /\ err' = r.exc
    /\ raw' = CallerMapping(raw)
    /\ phase' = "parsed"
    /\ UNCHANGED <<v2doc, v2err, redoc, reerr>>

ToV2 ==
    /\ phase = "parsed"
    /\ doc # NoDoc
    /\ doc[1].format_version = 1
    /\ LET r == to_v2(doc[1])
       IN /\ v2doc' = r.doc
          /\ v2err' = r.exc
    /\ doc' = <<SelfAfterToV2(doc[1])>>
    /\ phase' = "upgraded"
    /\ UNCHANGED <<raw, err, redoc, reerr>>

\* the version-2 document at hand: the one to_v2 returned, else the parsed one
LatestV2 ==
    IF v2doc # NoDoc THEN v2doc
    ELSE IF doc # NoDoc /\ doc[1].format_version = 2 THEN doc
    ELSE NoDoc

Revalidate ==
    /\ phase \in {"parsed", "upgraded"}
    /\ LatestV2 # NoDoc
    /\ LET r == RevalidateV2(LatestV2[1])
       IN /\ redoc' = r.doc
          /\ reerr' = r.exc
    /\ IF v2doc # NoDoc
       THEN v2doc' = <<SelfAfterRevalidate(v2doc[1])>> /\ doc' = doc
       ELSE doc' = <<SelfAfterRevalidate(doc[1])>> /\ v2doc' = v2doc
    /\ phase' = "revalidated"
    /\ UNCHANGED <<raw, err, v2err>>

Next == ParseObj \/ ToV2 \/ Revalidate

Spec == Init /\ [][Next]_vars

\* ------------------------------------------------------------- properties
Parsed == phase # "input"
Returned == Parsed /\ doc # NoDoc
Upgraded == v2doc # NoDoc
Declared(k) == k \in DOMAIN raw
\* the input supplies key k with a value of the declared type, In(k)
Given(k) == Declared(k) /\ IsValue(raw[k])
In(k) == raw[k][1]

SchemaResolves(d) ==
    \E i \in DOMAIN d.schemas : d.schemas[i].schema_id = d.current_schema_id
SpecResolves(d) ==
    \E i \in DOMAIN d.partition_specs : d.partition_specs[i].spec_id = d.default_spec_id
SortOrderResolves(d) ==
    \/ d.default_sort_order_id = 0
    \/ \E i \in DOMAIN d.sort_orders : d.sort_orders[i].order_id = d.default_sort_order_id
MainTracksCurrent(d) ==
    d.current_snapshot_id # PyNone =>
        /\ MAIN_BRANCH \in DOMAIN d.refs
        /\ d.refs[MAIN_BRANCH] = SnapshotRef(d.current_snapshot_id[1], BRANCH)

\* C1: every document that parse_obj or to_v2 returns has a current_schema_id
\* that is the schema_id of some element of its schemas.
C1_CurrentSchemaResolves ==
    /\ Returned => SchemaResolves(doc[1])
    /\ Upgraded => SchemaResolves(v2doc[1])

\* C2: every document that construction returns has a default_spec_id that is
\* the spec_id of some element of its partition_specs, also when the specs
\* were synthesized from the singular partition-spec and default-spec-id was
\* supplied non-zero.
C2_DefaultSpecResolves ==
    /\ Returned => SpecResolves(doc[1])
    /\ Upgraded => SpecResolves(v2doc[1])

\* C3: every document that construction returns has a default_sort_order_id
\* that is 0 or the order_id of some element of its sort_orders.
C3_DefaultSortOrderResolves ==
    /\ Returned => SortOrderResolves(doc[1])
    /\ Upgraded => SortOrderResolves(v2doc[1])

\* C4: in every constructed document with a current_snapshot_id (any integer,
\* 0 included), refs["main"] exists and is the BRANCH reference to it.
C4_MainRefTracksCurrentSnapshot ==
    /\ Returned => MainTracksCurrent(doc[1])
    /\ Upgraded => MainTracksCurrent(v2doc[1])

\* C5: parse_obj on a mapping without format-version returns no document and
\* raises the missing-format-version error, whatever else the mapping holds.
C5_MissingFormatVersion ==
    (Parsed /\ ~Declared("format-version")) =>
        /\ doc = NoDoc
        /\ err = Exc("ValidationError", "Missing format-version in TableMetadata", PyNone)

C5_Witness ==
    /\ Parsed /\ ~Declared("format-version")
    /\ Declared("schemas") /\ Declared("location") /\ Declared("current-snapshot-id")
    /\ err # NoExc

\* C6: parse_obj on a mapping whose format-version is neither 1 nor 2 returns
\* no document and raises the unknown-format-version error carrying that
\* value; the error is the dispatcher's own, not one of a model's construction.
C6_UnsupportedFormatVersion ==
    (Parsed /\ Declared("format-version") /\ raw["format-version"] \notin {<<1>>, <<2>>}) =>
        /\ doc = NoDoc
        /\ err = Exc("ValidationError", "Unknown format version", raw["format-version"])

C6_Witness ==
    /\ Parsed /\ Declared("format-version") /\ raw["format-version"] = <<3>>
    /\ Declared("schema") /\ Declared("schemas")
    /\ err # NoExc /\ err[1].arg = <<3>>

\* C7: a document returned by parse_obj carries the declared format-version:
\* input 1 gives the version-1 model (which has schema_ and partition_spec),
\* input 2 the version-2 model (which has last_sequence_number).
C7_TagIsDeclaredVersion ==
    Returned =>
        /\ Declared("format-version")
        /\ <<doc[1].format_version>> = raw["format-version"]
        /\ doc[1].format_version \in {1, 2}
        /\ (doc[1].format_version = 1) <=> ("schema_" \in DOMAIN doc[1])
        /\ (doc[1].format_version = 2) <=> ("last_sequence_number" \in DOMAIN doc[1])

C7_Witness ==
    /\ phase = "parsed" /\ doc # NoDoc
    /\ raw["format-version"] = <<1>> /\ doc[1].format_version = 1
    /\ "partition_spec" \in DOMAIN doc[1]

\* the refs of the input as SnapshotRef objects, empty when none is supplied
SuppliedRefs ==
    IF Given("refs")
    THEN [k \in DOMAIN In("refs") |-> ParseSnapshotRef(In("refs")[k])]
    ELSE EmptyDict

\* C8: a document (either version) parsed from an input whose
\* current-snapshot-id is -1 has no current_snapshot_id and exactly the refs
\* supplied in the input (none when no refs were supplied): no "main" is added.
C8_SentinelLeavesRefs ==
    (Returned /\ Declared("current-snapshot-id") /\ raw["current-snapshot-id"] = <<-1>>) =>
        /\ doc[1].current_snapshot_id = PyNone
        /\ DOMAIN doc[1].refs = DOMAIN SuppliedRefs
        /\ \A k \in DOMAIN SuppliedRefs : doc[1].refs[k] = SuppliedRefs[k]

C8_Witness ==
    /\ phase = "parsed" /\ doc # NoDoc
    /\ Declared("current-snapshot-id") /\ raw["current-snapshot-id"] = <<-1>>
    /\ Given("refs") /\ DOMAIN In("refs") = {"dev"}
    /\ doc[1].format_version = 2
    /\ DOMAIN doc[1].refs = {"dev"}

\* C9: a document parsed from an input whose current-snapshot-id is a present
\* value s has refs["main"] = the BRANCH reference to s, whatever "main" entry
\* the input's refs held.
C9_MainOverwritten ==
    (/\ Returned
     /\ Declared("current-snapshot-id")
     /\ raw["current-snapshot-id"] \notin {PyNone, <<-1>>}) =>
        /\ MAIN_BRANCH \in DOMAIN doc[1].refs
        /\ doc[1].refs[MAIN_BRANCH] = SnapshotRef(raw["current-snapshot-id"][1], BRANCH)

\* C10: a version-1 document without sort-orders is constructed with
\* default_sort_order_id = 0 and sort_orders holding exactly the unsorted
\* order, and its parse never ends in the sort-order reference error.
C10_MissingSortOrdersUnsorted ==
    (Parsed /\ Declared("format-version") /\ raw["format-version"] = <<1>>
            /\ ~Declared("sort-orders")) =>
        /\ doc # NoDoc =>
              /\ doc[1].default_sort_order_id = 0
              /\ doc[1].sort_orders = <<UNSORTED_SORT_ORDER>>
        /\ err # NoExc => err[1].what # "default-sort-order-id"

\* The declared version, when it is a supported one
Version == IF Given("format-version") THEN In("format-version") ELSE 0
IsV1 == Version = 1
IsV2 == Version = 2

\* what the input supplies under key k is a value of the declared type (None
\* counts where the field is Optional: current-snapshot-id, and the table-uuid
\* of version 1)
WellTyped(k) ==
    \/ IsValue(raw[k])
    \/ IsNone(raw[k]) /\ (k = "current-snapshot-id" \/ (k = "table-uuid" /\ IsV1))

\* the keys the declared version's model reads; any other key is ignored
FieldAliases ==
    LET fields == IF IsV1 THEN TableMetadataV1Fields ELSE TableMetadataV2Fields
    IN {fields[i].alias : i \in DOMAIN fields}

\* The input has every field its version's structural parse requires (for
\* version 1, what set_v2_compatible_defaults cannot derive), and every
\* value it supplies is of the declared type
StructurallyValid ==
    /\ \A k \in DOMAIN raw \cap FieldAliases : WellTyped(k)
    /\ IF IsV1
       THEN /\ {"location", "last-updated-ms", "last-column-id", "schema",
                "partition-spec"} \subseteq DOMAIN raw
            /\ Declared("last-partition-id") \/ In("partition-spec") # <<>>
       ELSE /\ IsV2
            /\ {"location", "last-updated-ms", "last-column-id", "table-uuid",
                "last-partition-id"} \subseteq DOMAIN raw

\* the pointers of the input, with the defaults of the field declarations
RawInt(k, default) == IF Given(k) THEN In(k) ELSE default
RawCurrentSchemaId == RawInt("current-schema-id", DEFAULT_SCHEMA_ID)
RawDefaultSpecId == RawInt("default-spec-id", INITIAL_SPEC_ID)
RawDefaultSortOrderId == RawInt("default-sort-order-id", UNSORTED_SORT_ORDER_ID)

NonEmptySupplied(k) == Given(k) /\ In(k) # <<>>
RawSchemaMatches ==
    /\ Given("schemas")
    /\ \E i \in DOMAIN In("schemas") : In("schemas")[i]["schema-id"] = RawCurrentSchemaId

\* the outcome is an error of the schema check: the dangling-reference error, or
\* the TypeError of the check recorded first in pydantic's error list
SchemaCheckFailed ==
    /\ err # NoExc
    /\ \/ err[1].what = "current-schema-id"
       \/ /\ err[1].type = "pydantic.ValidationError"
          /\ err[1].errors[1].type = "TypeError"

\* C11: for a structurally valid document of either version with a supplied
\* non-empty schemas, construction fails with the dangling-schema-reference
\* error naming current_schema_id when no element has that id, and the schema
\* check passes exactly when some element has it.
C11_DanglingSchemaReference ==
    (Parsed /\ StructurallyValid /\ NonEmptySupplied("schemas")) =>
        /\ ~RawSchemaMatches =>
              /\ doc = NoDoc
              /\ err = Exc("ValidationError", "current-schema-id", <<RawCurrentSchemaId>>)
        /\ RawSchemaMatches <=> ~SchemaCheckFailed

EmptyPartitionSpecNoLastId ==
    /\ IsV1
    /\ Given("partition-spec") /\ In("partition-spec") = <<>>
    /\ ~Declared("last-partition-id")

\* C12: a version-1 document whose partition-spec is the empty list and which
\* supplies no last-partition-id is never constructed; with the singular schema
\* present the failure is the error of the last-partition-id derivation (the
\* ValueError of max() over no fields, reported by pydantic).
C12_EmptyPartitionSpecRejected ==
    (Parsed /\ EmptyPartitionSpecNoLastId) =>
        /\ doc = NoDoc
        /\ Given("schema") =>
              err = PydanticValidationError(
                        <<ExcRec("ValueError", "max() arg is an empty sequence", PyNone)>>)

C12_Witness ==
    /\ phase = "parsed" /\ EmptyPartitionSpecNoLastId
    /\ {"location", "last-updated-ms", "last-column-id", "schema"} \subseteq DOMAIN raw
    /\ ~Declared("partition-specs")
    /\ doc = NoDoc
    /\ err # NoExc /\ err[1].type = "pydantic.ValidationError"

CommonFieldNames ==
    {TableMetadataCommonFields[i].name : i \in DOMAIN TableMetadataCommonFields}

ValidDocument(d) == SchemaResolves(d) /\ SpecResolves(d) /\ SortOrderResolves(d)

\* C13: to_v2 applied to a version-1 document whose three pointers resolve
\* and which has a table_uuid returns a document, and every document to_v2
\* returns has format_version 2, last_sequence_number 0, and every common
\* field equal to that of the version-1 source.
C13_UpgradeKeepsCommonFields ==
    /\ (phase = "upgraded" /\ ValidDocument(doc[1]) /\ doc[1].table_uuid # PyNone)
           => Upgraded
    /\ Upgraded =>
        /\ v2doc[1].format_version = 2
        /\ v2doc[1].last_sequence_number = 0
        /\ \A f \in CommonFieldNames : v2doc[1][f] = doc[1][f]

C13_Witness ==
    /\ phase = "upgraded" /\ v2doc # NoDoc
    /\ doc[1].format_version = 1
    /\ doc[1].current_snapshot_id = <<42>>
    /\ doc[1].properties # EmptyDict
    /\ doc[1].snapshots # <<>>
    /\ MAIN_BRANCH \in DOMAIN v2doc[1].refs

\* C14: to_v2 returns a document for every version-1 document that parse_obj
\* returned; the cross-reference checks of version 2 never fail on it.
C14_UpgradeSucceeds ==
    phase = "upgraded" => (v2doc # NoDoc /\ v2err = NoExc)

\* C15: a constructed document is never changed by a later operation: across
\* to_v2, successful or failing, and across re-validation, the source document
\* keeps its version tag and every field, and a document that to_v2 returns is
\* a value distinct from its source.
C15_DocumentsImmutable ==
    [][ /\ doc # NoDoc => doc' = doc
        /\ v2doc # NoDoc => v2doc' = v2doc
        /\ v2doc' # NoDoc => v2doc' # doc' ]_vars

C15_Witness ==
    /\ phase = "upgraded"
    /\ doc # NoDoc /\ doc[1].format_version = 1
    /\ v2err # NoExc

TagOf(d) == d[1].format_version

\* C16: the format-version tag of a document lineage never goes from 2 to 1:
\* no step changes the tag of a document that exists; to_v2 acts on a
\* version-1 document only and what it returns has tag 2; re-validating a
\* version-2 document returns tag 2.
C16_TagNeverDowngrades ==
    [][ /\ doc # NoDoc => (doc' # NoDoc /\ TagOf(doc') = TagOf(doc))
        /\ v2doc # NoDoc => (v2doc' # NoDoc /\ TagOf(v2doc') = TagOf(v2doc))
        /\ (v2doc = NoDoc /\ v2doc' # NoDoc) => (TagOf(doc) = 1 /\ TagOf(v2doc') = 2)
        /\ phase' = "upgraded" => TagOf(doc) = 1
        /\ redoc' # NoDoc => (TagOf(LatestV2) = 2 /\ TagOf(redoc') = 2) ]_vars

C16_Witness ==
    /\ phase = "revalidated"
    /\ doc # NoDoc /\ TagOf(doc) = 1
    /\ v2doc # NoDoc /\ TagOf(v2doc) = 2
    /\ redoc # NoDoc /\ TagOf(redoc) = 2

\* C17: running the version-2 pipeline on the field values of a constructed
\* version-2 document succeeds and returns a document equal to it in every
\* field, refs and current_snapshot_id included.
C17_RevalidationIdempotent ==
    phase = "revalidated" =>
        /\ reerr = NoExc
        /\ redoc # NoDoc
        /\ DOMAIN redoc[1] = DOMAIN LatestV2[1]
        /\ \A f \in DOMAIN redoc[1] : redoc[1][f] = LatestV2[1][f]

C17_Witness ==
    /\ phase = "revalidated"
    /\ redoc # NoDoc
    /\ redoc[1].current_snapshot_id = <<42>>
    /\ MAIN_BRANCH \in DOMAIN redoc[1].refs
    /\ Declared("refs")

\* C18: parsing has no side effect on its input: whether parse_obj returns or
\* fails, the caller's mapping, its nested singular schema object included,
\* holds the keys and values it held before the call.
C18_InputUntouched ==
    [][raw' = raw]_vars

RawSpecMatches ==
    /\ Given("partition-specs")
    /\ \E i \in DOMAIN In("partition-specs") :
           In("partition-specs")[i]["spec-id"] = RawDefaultSpecId
RawSortOrderMatches ==
    \/ RawDefaultSortOrderId = UNSORTED_SORT_ORDER_ID
    \/ /\ Given("sort-orders")
       /\ \E i \in DOMAIN In("sort-orders") :
              In("sort-orders")[i]["order-id"] = RawDefaultSortOrderId

\* Some stage of the pipeline finds fault with the input: the dispatcher with
\* the version, the structural parse with a missing field, a version-2 check
\* with a pointer, a version-1 validator with a supplied plural collection.
StageDetectsViolation ==
    \/ ~(IsV1 \/ IsV2)
    \/ ~StructurallyValid
    \/ /\ IsV2
       /\ \/ ~RawSchemaMatches
          \/ ~RawSpecMatches
          \/ ~RawSortOrderMatches
    \/ /\ IsV1
       /\ \/ NonEmptySupplied("schemas")
          \/ NonEmptySupplied("partition-specs")
          \/ NonEmptySupplied("sort-orders")

\* C19: every construction attempt ends in exactly one of a document and an
\* error; when some stage of the pipeline detects a violation no document
\* comes out; and a document that the version-2 pipeline returns passed all
\* three checks.
C19_DocumentOrError ==
    /\ Parsed => ((doc = NoDoc) <=> (err # NoExc))
    /\ (Parsed /\ StageDetectsViolation) => doc = NoDoc
    /\ (Returned /\ IsV2) => ValidDocument(doc[1])
    /\ phase = "upgraded" => ((v2doc = NoDoc) <=> (v2err # NoExc))
    /\ Upgraded => ValidDocument(v2doc[1])
    /\ phase = "revalidated" => ((redoc = NoDoc) <=> (reerr # NoExc))

C19_Witness ==
    /\ Parsed /\ doc = NoDoc
    /\ IsV2 /\ ~StructurallyValid
    /\ ~RawSchemaMatches
    /\ err[1].type = "pydantic.ValidationError"

\* C20: parsing an otherwise valid version-1 document that supplies a
\* non-empty schemas with an element whose schema-id is current-schema-id
\* returns a document whose schemas is the supplied collection.
C20_SuppliedSchemasKept ==
    ( /\ Parsed /\ IsV1 /\ StructurallyValid
      /\ NonEmptySupplied("schemas") /\ RawSchemaMatches
      /\ ~NonEmptySupplied("partition-specs")
      /\ ~NonEmptySupplied("sort-orders") ) =>
        /\ doc # NoDoc
        /\ doc[1].schemas = [i \in DOMAIN In("schemas") |-> ParseSchema(In("schemas")[i])]

\* the same document declared as the other supported version
AsVersion(data, version) == SetItem(data, "format-version", version)
AllPluralSupplied ==
    /\ NonEmptySupplied("schemas")
    /\ NonEmptySupplied("partition-specs")
    /\ NonEmptySupplied("sort-orders")

\* C21: for supplied non-empty schemas, partition-specs and sort-orders and
\* any three pointers, version-1 construction accepts exactly when version-2
\* construction of the same collections and pointers accepts, and when they
\* reject they raise the same dangling-reference error.
C21_ChecksAgreeAcrossVersions ==
    ( /\ Parsed /\ IsV1 /\ StructurallyValid /\ AllPluralSupplied
      /\ {"table-uuid", "last-partition-id"} \subseteq DOMAIN raw ) =>
        LET v2 == TableMetadataV2(AsVersion(raw, <<2>>))
        IN /\ (doc # NoDoc) <=> (v2.doc # NoDoc)
           /\ doc = NoDoc => err = v2.exc

NoPlural(k) == ~Declared(k)
SingularSchemaId ==
    IF "schema-id" \in DOMAIN In("schema") THEN In("schema")["schema-id"]
    ELSE DEFAULT_SCHEMA_ID

\* C22: the document parsed from a version-1 input with no schemas and no
\* partition-specs has as schemas the one singular schema, with the supplied
\* schema-id or 0 when it had none, and as partition_specs one spec with
\* spec_id 0 whose fields are those of the singular partition-spec.
C22_SingularsSynthesized ==
    [][ ( /\ phase = "input" /\ IsV1
          /\ NoPlural("schemas") /\ NoPlural("partition-specs")
          /\ doc' # NoDoc ) =>
            /\ doc'[1].schemas = <<[schema_id |-> SingularSchemaId]>>
            /\ doc'[1].schemas = <<doc'[1].schema_>>
            /\ doc'[1].partition_specs =
                   <<[spec_id |-> 0, fields |-> In("partition-spec")]>> ]_vars

C22_Witness ==
    /\ Returned /\ IsV1
    /\ NoPlural("schemas") /\ NoPlural("partition-specs")
    /\ Declared("default-spec-id") /\ raw["default-spec-id"] = <<1>>
    /\ doc[1].partition_specs[1].fields # <<>>
    /\ Len(doc[1].schemas) = 1

PartitionFieldIds ==
    {In("partition-spec")[i]["field-id"] : i \in DOMAIN In("partition-spec")}

\* C23: the last_partition_id of a document parsed from a version-1 input is
\* the supplied last-partition-id when there is one, and then an empty
\* partition-spec is accepted; otherwise it is the greatest field-id of the
\* singular partition-spec.
C23_LastPartitionId ==
    /\ (Returned /\ IsV1 /\ Declared("last-partition-id")) =>
           doc[1].last_partition_id = In("last-partition-id")
    /\ (Returned /\ IsV1 /\ ~Declared("last-partition-id")) =>
           /\ doc[1].last_partition_id \in PartitionFieldIds
           /\ \A id \in PartitionFieldIds : id <= doc[1].last_partition_id
    /\ ( /\ Parsed /\ IsV1 /\ StructurallyValid /\ Declared("last-partition-id")
         /\ In("partition-spec") = <<>>
         /\ ~NonEmptySupplied("schemas") /\ ~NonEmptySupplied("partition-specs")
         /\ ~NonEmptySupplied("sort-orders") ) => doc # NoDoc

C23_Witness ==
    /\ Returned /\ IsV1 /\ ~Declared("last-partition-id")
    /\ Len(In("partition-spec")) = 2
    /\ In("partition-spec")[1]["field-id"] < In("partition-spec")[2]["field-id"]
    /\ doc[1].last_partition_id = 1001

MissingField(alias) ==
    /\ err # NoExc
    /\ err[1].type = "pydantic.ValidationError"
    /\ \E i \in DOMAIN err[1].errors :
           err[1].errors[i] = ExcRec("MissingError", alias, PyNone)

\* C24: every constructed document has a table_uuid: the supplied one when
\* the input has table-uuid (either version), a newly generated one for a
\* version-1 input without it; a version-2 input without it is rejected.
C24_TableUuid ==
    /\ Returned => doc[1].table_uuid # PyNone
    /\ (Returned /\ Declared("table-uuid")) => doc[1].table_uuid = raw["table-uuid"]
    /\ (Returned /\ IsV1 /\ ~Declared("table-uuid")) =>
           doc[1].table_uuid \in Values(GeneratedUUIDs)
    /\ (Parsed /\ IsV2 /\ ~Declared("table-uuid")) => (doc = NoDoc /\ err # NoExc)
    /\ Upgraded => v2doc[1].table_uuid = doc[1].table_uuid

DanglingReferenceError(e) ==
    /\ e # NoExc
    /\ e[1].type = "ValidationError"
    /\ e[1].what \in {"current-schema-id", "default-spec-id", "default-sort-order-id"}
OnlyStructuralErrors(e) ==
    /\ e # NoExc
    /\ e[1].type = "pydantic.ValidationError"
    /\ \A i \in DOMAIN e[1].errors :
           e[1].errors[i].type \in {"MissingError", "WrongConstantError",
                                    "NoneIsNotAllowedError", "IntegerError",
                                    "UUIDError", "ListError", "DictError"}

\* C25: a version-2 input with a structural field error is rejected with the
\* structural error: none of the three cross-reference checks runs, and the
\* failure is never a dangling-reference error.
C25_ChecksAfterStructure ==
    (Parsed /\ IsV2 /\ ~StructurallyValid) =>
        /\ doc = NoDoc
        /\ ~DanglingReferenceError(err)
        /\ OnlyStructuralErrors(err)

RawSortOrders == IF Given("sort-orders") THEN In("sort-orders") ELSE <<>>
SortOrderElementMatches ==
    \E i \in DOMAIN RawSortOrders : RawSortOrders[i]["order-id"] = RawDefaultSortOrderId
OtherChecksPass ==
    /\ IsV2 /\ StructurallyValid
    /\ RawSchemaMatches
    /\ RawSpecMatches

\* C26: the sort-order check passes for every sort_orders, the empty one
\* included, when default_sort_order_id is 0; when it is not 0 the check
\* passes exactly when some element has that order_id and otherwise raises the
\* dangling-sort-order error naming the id; a passing check returns the values
\* it was given.
C26_SortOrderCheck ==
    /\ (Parsed /\ OtherChecksPass) =>
          /\ RawDefaultSortOrderId = 0 => doc # NoDoc
          /\ RawDefaultSortOrderId # 0 => (SortOrderElementMatches <=> doc # NoDoc)
          /\ doc = NoDoc =>
                err = Exc("ValidationError", "default-sort-order-id", <<RawDefaultSortOrderId>>)
          /\ doc # NoDoc =>
                /\ doc[1].default_sort_order_id = RawDefaultSortOrderId
                /\ doc[1].sort_orders =
                       [i \in DOMAIN RawSortOrders |-> ParseSortOrder(RawSortOrders[i])]
    /\ (Returned /\ IsV2) => check_sort_orders(DictArg(doc[1])) = Ok(doc[1])

C26_Witness ==
    /\ Parsed /\ OtherChecksPass
    /\ NonEmptySupplied("sort-orders")
    /\ RawDefaultSortOrderId = 1 /\ ~SortOrderElementMatches
    /\ err = Exc("ValidationError", "default-sort-order-id", <<1>>)

PluralsOnly ==
    /\ IsV1
    /\ ~Declared("schema") /\ ~Declared("partition-spec")
    /\ NonEmptySupplied("schemas") /\ RawSchemaMatches
    /\ NonEmptySupplied("partition-specs") /\ RawSpecMatches
    /\ {"location", "last-updated-ms", "last-column-id", "last-partition-id"}
           \subseteq DOMAIN raw

\* C27 as stated: a version-1 input that supplies valid schemas and
\* partition-specs (and last-partition-id) but neither singular field is
\* constructed.
C27_SingularsOptional ==
    (Parsed /\ PluralsOnly) => doc # NoDoc

\* C27: in version 1 the singular schema and the singular partition-spec are
\* required whatever plural collections are supplied: an input without the
\* singular schema is rejected with KeyError('schema') by the pre validator,
\* and an input without the singular partition-spec yields no document.
C27_SingularsRequired ==
    /\ (Parsed /\ IsV1 /\ ~Declared("schema")) =>
           (doc = NoDoc /\ err = Exc("KeyError", "schema", PyNone))
    /\ (Parsed /\ IsV1 /\ ~Declared("partition-spec")) =>
           (doc = NoDoc /\ err # NoExc)
    /\ (Parsed /\ IsV1 /\ Given("schema") /\ ~Declared("partition-spec")
          /\ Declared("last-partition-id")) => MissingField("partition-spec")

C27_Witness ==
    /\ Parsed /\ PluralsOnly
    /\ doc = NoDoc

CurrentSnapshotPresent ==
    /\ Declared("current-snapshot-id")
    /\ raw["current-snapshot-id"] \notin {PyNone, <<-1>>}

\* C28: when current_snapshot_id is present, the constructed refs differ from
\* the supplied refs in the entry "main" alone: every supplied reference with
\* another name is in the document's refs with the value supplied.
C28_OtherRefsKept ==
    (Returned /\ CurrentSnapshotPresent) =>
        \A k \in DOMAIN SuppliedRefs \ {MAIN_BRANCH} :
            /\ k \in DOMAIN doc[1].refs
            /\ doc[1].refs[k] = SuppliedRefs[k]

SuppliedEmpty(k) == Given(k) /\ In(k) = <<>>
NoPluralContent ==
    /\ ~NonEmptySupplied("schemas")
    /\ ~NonEmptySupplied("partition-specs")
    /\ ~NonEmptySupplied("sort-orders")

\* C29: version 1 treats a plural collection supplied as the empty list like
\* an absent one: schemas, partition_specs (spec id 0) and sort_orders (the
\* unsorted order) are synthesized and no dangling-reference error is raised;
\* version 2 with an empty schemas or partition-specs fails its
\* cross-reference check.
C29_EmptyPluralAsAbsent ==
    /\ (Parsed /\ IsV1 /\ StructurallyValid /\ NoPluralContent) =>
          /\ doc # NoDoc
          /\ doc[1].schemas = <<doc[1].schema_>>
          /\ doc[1].partition_specs =
                 <<[spec_id |-> INITIAL_SPEC_ID, fields |-> In("partition-spec")]>>
          /\ doc[1].sort_orders = <<UNSORTED_SORT_ORDER>>
    /\ (Parsed /\ IsV1 /\ NoPluralContent) => ~DanglingReferenceError(err)
    /\ (Parsed /\ IsV2 /\ StructurallyValid /\ SuppliedEmpty("schemas")) =>
          /\ doc = NoDoc
          /\ err = Exc("ValidationError", "current-schema-id", <<RawCurrentSchemaId>>)
    /\ (Parsed /\ IsV2 /\ SuppliedEmpty("partition-specs")) =>
          /\ doc = NoDoc
          /\ DanglingReferenceError(err)

C29_Witness ==
    /\ Returned /\ IsV1
    /\ SuppliedEmpty("schemas")
    /\ Declared("current-schema-id")

CurrentSchemaFound(d) ==
    LET r == current_schema(d)
    IN /\ r.exc = NoExc
       /\ r.val.schema_id = d.current_schema_id
       /\ \E i \in DOMAIN d.schemas : d.schemas[i] = r.val

\* C30: current_schema() on every constructed document, of either version,
\* returns an element of its schemas whose schema_id is current_schema_id, and
\* never fails for want of one.
C30_CurrentSchemaFound ==
    /\ Returned => CurrentSchemaFound(doc[1])
    /\ Upgraded => CurrentSchemaFound(v2doc[1])

====
